---- MODULE Spec2Model ----
(***************************************************************************)
(* Model of the processing service's job lifecycle engine:                 *)
(*   - ProcessingService (processing.service.ts): the in-memory job table  *)
(*     `jobs`, triggerIngestion, processDocument, simulateProcessingPhases,*)
(*     cancelIngestion and the notifications it issues;                    *)
(*   - QueueService.addJob and the Bull queue 'document-processing' it     *)
(*     feeds (waiting / active / delayed / completed / failed), configured *)
(*     with attempts: 3 and exponential backoff;                           *)
(*   - DocumentProcessor.handleDocumentProcessing, the queue handler;      *)
(*   - QueueConsumerService.processDocument and the staged pipeline        *)
(*     DocumentProcessorService.processDocument it runs (the doc*          *)
(*     variables), which share no state with the job table.                *)
(*                                                                         *)
(* One action is one run of handler code between two suspension points     *)
(* (await): JavaScript runs each such piece atomically, and anything else  *)
(* (another handler, an HTTP request) may run at the await.                *)
(*                                                                         *)
(* Job records are JavaScript objects: the table maps an id to a           *)
(* reference, a handler keeps the reference it read, and `jobs.set(id,job)`*)
(* stores that reference again.  `heap` holds the objects, `jobs` and      *)
(* `wjob` hold references (indices into heap, 0 for none).                 *)
(***************************************************************************)
EXTENDS Integers, Sequences, FiniteSets, TLC

\* ---------------------------------------------------------------- bounds
\* ingestion ids a caller may submit
Ids == {"a", "b"}

\* total number of triggerIngestion calls in a run
MaxSubmits == 2

\* concurrent executions of the queue handler
NumWorkers == 2

Workers == 1..NumWorkers

\* terminal notifications counted per id (the count stops there)
MaxTermNotes == 2

\* config.priority values a caller sends
Priorities == {3, 8}

\* ------------------------------------------------------------- constants
\* `data.config?.priority || 5`: an absent (or zero) priority reads as falsy
NoPriority == 0

DefaultPriority == 5

\* defaultJobOptions.attempts
MaxAttempts == 3

\* defaultJobOptions.backoff.delay (ms)
BackoffDelay == 2000

\* simulateProcessingPhases: the progress value each phase writes
PhaseProgress == <<20, 40, 60, 80, 95>>

NumPhases == Len(PhaseProgress)

NoError == "none"

CancelledByUser == "Cancelled by user"

StageError == "stage error"

\* the outcomes of an HTTP POST to the main API / backend
PostOutcomes == {"ok", "timeout", "error"}

PostError == "post error"

\* DocumentProcessorService.processDocument: the value each stage hands to
\* updateProgress, in stage order (extractText, performOCR, extractKeywords,
\* generateSummary, detectLanguage, enableSearch)
StageProgress == <<10, 30, 50, 70, 85, 95>>

NumStages == Len(StageProgress)

\* a pipeline that runs OCR before the text extraction
StageNameOcrFirst == <<"performOCR", "extractText", "extractKeywords",
                       "generateSummary", "detectLanguage", "indexForSearch">>

\* the stage functions, in the order of their `if` blocks
StageName == <<"extractText", "performOCR", "extractKeywords",
               "generateSummary", "detectLanguage", "indexForSearch">>

Stages == 1..NumStages

\* the field of the result each stage assigns (indexForSearch assigns none)
StageField == <<{"extractedText"}, {"ocrText"}, {"keywords"}, {"summary"},
                {"language"}, {}>>

\* the ProcessingResult literal at the top of processDocument
NewResult == [success |-> FALSE, errors |-> <<>>, fields |-> {}]

VARIABLES
  heap,       \* the IngestionJob objects ever created, in creation order
  jobs,       \* ProcessingService.jobs: id -> reference into heap, 0 = no entry
  waiting,    \* Bull wait list, head = next entry a worker takes
  delayed,    \* Bull delayed set (entries waiting for their retry backoff)
  completed,  \* Bull completed set
  failed,     \* Bull failed set (attempts exhausted)
  nextJid,    \* Bull's job id counter
  queuedCont, \* per id: triggerIngestion calls suspended at `await addJob`
  wpc,        \* per worker: where its handler invocation stands
  wentry,     \* per worker: the queue entry it holds (active)
  wjob,       \* per worker: the job reference processDocument read
  wphase,     \* per worker: index of the next phase of simulateProcessingPhases
  lastNote,   \* per id: the last notification notifyMainAPI issued for it
  termNotes,  \* per id: number of 'completed' / 'failed' notifications issued
  docPc,          \* where the run of QueueConsumerService.processDocument stands
  docConfig,      \* job.config of the document being processed: stage -> enabled
  docStage,       \* index of the next stage of the pipeline
  docRan,         \* the stage functions called in this run, in call order
  docResult,      \* the ProcessingResult under construction
  docProgress,    \* the last value handed to updateProgress
  docCallbacks,   \* the results handed to sendProcessingCallback in this run
  docPost,        \* how the POST of the last callback settled
  docJobProgress, \* the queue entry's progress (job.progress)
  docOutcome,     \* how the handler ended: "none", "returned" or "thrown"
  hPc,            \* where the call of HealthService stands
  hCall,          \* the method called: "getHealthStatus" or "getQueueHealth"
  hFailed,        \* the queue reads of the call that rejected
  hResult,        \* the object the call returned
  hOutcome        \* how the call ended: "none", "returned" or "thrown"

\* the job lifecycle engine
life == <<heap, jobs, waiting, delayed, completed, failed, nextJid, queuedCont,
          wpc, wentry, wjob, wphase, lastNote, termNotes>>

\* the document pipeline
pipe == <<docPc, docConfig, docStage, docRan, docResult, docProgress, docCallbacks,
          docPost, docJobProgress, docOutcome>>

\* the health endpoints
health == <<hPc, hCall, hFailed, hResult, hOutcome>>

vars == <<life, pipe, health>>

\* no answer of a health call yet
NoHealth == [status |-> "none", error |-> NoError]

NoEntry ==
  [jid |-> 0, id |-> "", prio |-> 0, attemptsMade |-> 0, progress |-> 0,
   delay |-> 0]

\* ------------------------------------------------------ job table helpers
\* the IngestionJob literal of triggerIngestion
NewJob(id) ==
  [id |-> id, status |-> "queued", progress |-> 0, startedAt |-> FALSE,
   completedAt |-> FALSE, error |-> NoError, result |-> FALSE]

NoNote == [status |-> "none", progress |-> 0]

\* a notifier that lets the failure of its POST through
NotifyMainAPIRethrows(post) == post # "ok"

\* notifyMainAPI wraps the POST in try/catch and only logs in the catch: no
\* outcome of the POST makes the promise it returns reject
NotifyMainAPIThrows(post) == FALSE

\* notifyMainAPI: the payload POSTed to the main API becomes the last
\* notification of its id
Notify(id, status, progress) ==
  /\ lastNote' = [lastNote EXCEPT ![id] = [status |-> status, progress |-> progress]]
  /\ termNotes' = [termNotes EXCEPT ![id] =
                     IF status \in {"completed", "failed"} /\ @ < MaxTermNotes
                     THEN @ + 1 ELSE @]

\* getIngestionStatus: the record the table holds for id
Known(id) == jobs[id] # 0

Rec(id) == heap[jobs[id]]

\* ---------------------------------------------------------- Bull's queue
\* QueueService.addJob: the priority option handed to Bull
AddJobPriority(p) == IF p = NoPriority THEN DefaultPriority ELSE p

\* Bull's priority insertion: an entry goes behind every waiting entry whose
\* priority number is less than or equal to its own (1 is served first).
InsertByPriority(q, e) ==
  LET k == Cardinality({i \in 1..Len(q) : q[i].prio <= e.prio})
  IN  SubSeq(q, 1, k) \o <<e>> \o SubSeq(q, k + 1, Len(q))

RECURSIVE Pow2(_)
Pow2(n) == IF n = 0 THEN 1 ELSE 2 * Pow2(n - 1)

\* the 'fixed' backoff strategy: the same delay before every retry
BackoffFixed(attemptsMade) == BackoffDelay

\* Bull's 'exponential' backoff strategy: (2^attemptsMade - 1) * delay
Backoff(attemptsMade) == (Pow2(attemptsMade) - 1) * BackoffDelay

Init ==
  /\ heap = <<>>
  /\ jobs = [id \in Ids |-> 0]
  /\ waiting = <<>>
  /\ delayed = {}
  /\ completed = {}
  /\ failed = {}
  /\ nextJid = 1
  /\ queuedCont = [id \in Ids |-> 0]
  /\ wpc = [w \in Workers |-> "idle"]
  /\ wentry = [w \in Workers |-> NoEntry]
  /\ wjob = [w \in Workers |-> 0]
  /\ wphase = [w \in Workers |-> 0]
  /\ lastNote = [id \in Ids |-> NoNote]
  /\ termNotes = [id \in Ids |-> 0]
  /\ docPc = "idle"
  /\ docConfig = [k \in Stages |-> FALSE]
  /\ docStage = 0
  /\ docRan = <<>>
  /\ docResult = NewResult
  /\ docProgress = 0
  /\ docCallbacks = <<>>
  /\ docPost = "none"
  /\ docJobProgress = 0
  /\ docOutcome = "none"
  /\ hPc = "idle"
  /\ hCall = "none"
  /\ hFailed = {}
  /\ hResult = NoHealth
  /\ hOutcome = "none"

\* ------------------------------------------------------- triggerIngestion
\* a submission that replaces the whole table by one holding only its job
TriggerIngestionResetsTable(id, p) ==
  /\ Len(heap) < MaxSubmits
  /\ heap' = Append(heap, NewJob(id))
  /\ jobs' = [i \in Ids |-> IF i = id THEN Len(heap) + 1 ELSE 0]
  /\ waiting' = InsertByPriority(waiting,
                  [jid |-> nextJid, id |-> id, prio |-> AddJobPriority(p),
                   attemptsMade |-> 0, progress |-> 0, delay |-> 0])
  /\ nextJid' = nextJid + 1
  /\ queuedCont' = [queuedCont EXCEPT ![id] = @ + 1]
  /\ UNCHANGED <<pipe, health>>
  /\ UNCHANGED <<lastNote, termNotes, delayed, completed, failed, wpc, wentry, wjob, wphase>>

\* triggerIngestion up to the resolution of `await queueService.addJob(...)`:
\* the record is put in the table and the entry is added to the queue.
TriggerIngestion(id, p) ==
  /\ Len(heap) < MaxSubmits
  /\ heap' = Append(heap, NewJob(id))
  /\ jobs' = [jobs EXCEPT ![id] = Len(heap) + 1]
  /\ waiting' = InsertByPriority(waiting,
                  [jid |-> nextJid, id |-> id, prio |-> AddJobPriority(p),
                   attemptsMade |-> 0, progress |-> 0, delay |-> 0])
  /\ nextJid' = nextJid + 1
  /\ queuedCont' = [queuedCont EXCEPT ![id] = @ + 1]
  /\ UNCHANGED <<pipe, health>>
  /\ UNCHANGED <<lastNote, termNotes, delayed, completed, failed, wpc, wentry, wjob, wphase>>

\* the same call when queue.add rejects: the await throws, the call fails
\* after the record was stored
TriggerIngestionRejected(id) ==
  /\ Len(heap) < MaxSubmits
  /\ heap' = Append(heap, NewJob(id))
  /\ jobs' = [jobs EXCEPT ![id] = Len(heap) + 1]
  /\ UNCHANGED <<pipe, health>>
  /\ UNCHANGED <<lastNote, termNotes, waiting, delayed, completed, failed, nextJid, queuedCont,
                 wpc, wentry, wjob, wphase>>

\* triggerIngestion after the await: notify 'queued' and return
TriggerReturn(id) ==
  /\ queuedCont[id] > 0
  /\ queuedCont' = [queuedCont EXCEPT ![id] = @ - 1]
  /\ Notify(id, "queued", 0)
  /\ UNCHANGED <<pipe, health>>
  /\ UNCHANGED <<heap, jobs, waiting, delayed, completed, failed, nextJid,
                 wpc, wentry, wjob, wphase>>

\* ------------------------------------------------------------ the worker
\* Bull hands the next waiting entry to a free handler slot; the handler
\* runs to `await job.progress(0)`.
Claim(w) ==
  /\ wpc[w] = "idle"
  /\ waiting # <<>>
  /\ wentry' = [wentry EXCEPT ![w] = Head(waiting)]
  /\ waiting' = Tail(waiting)
  /\ wpc' = [wpc EXCEPT ![w] = "progress0"]
  /\ UNCHANGED <<pipe, health>>
  /\ UNCHANGED <<lastNote, termNotes, heap, jobs, delayed, completed, failed, nextJid, queuedCont,
                 wjob, wphase>>

\* the record as processDocument leaves it at lines 80-83
StartProcessing(job) ==
  [job EXCEPT !.status = "processing", !.startedAt = TRUE, !.progress = 10]

\* job.progress(0) resolved; processDocument runs to its first await
ProcessDocumentStart(w) ==
  /\ wpc[w] = "progress0"
  /\ wentry' = [wentry EXCEPT ![w].progress = 0]
  /\ LET id == wentry[w].id
         job == jobs[id]
     IN  IF job = 0
         THEN \* 'Job not found': return to the handler
              /\ wpc' = [wpc EXCEPT ![w] = "progress100"]
              /\ UNCHANGED <<heap, jobs, wjob, wphase, lastNote, termNotes>>
         ELSE /\ heap' = [heap EXCEPT ![job] = StartProcessing(@)]
              /\ jobs' = [jobs EXCEPT ![id] = job]
              /\ wjob' = [wjob EXCEPT ![w] = job]
              /\ wphase' = [wphase EXCEPT ![w] = 1]
              /\ wpc' = [wpc EXCEPT ![w] = "phase"]
              /\ Notify(id, "processing", 10)
  /\ UNCHANGED <<pipe, health>>
  /\ UNCHANGED <<waiting, delayed, completed, failed, nextJid, queuedCont>>

\* a catch block that records the error and leaves the status alone
FailJobKeepsStatus(job, msg) ==
  [job EXCEPT !.completedAt = TRUE, !.error = msg]

\* the record as the catch block of processDocument leaves it
FailJob(job, msg) ==
  [job EXCEPT !.status = "failed", !.completedAt = TRUE, !.error = msg]

\* the catch block of processDocument (lines 115-125) for an exception with
\* message msg
CatchBlock(w, msg) ==
  /\ LET job == wjob[w]
         id == heap[job].id
     IN  /\ heap' = [heap EXCEPT ![job] = FailJob(@, msg)]
         /\ jobs' = [jobs EXCEPT ![id] = job]
         /\ Notify(id, "failed", heap[job].progress)
  /\ wpc' = [wpc EXCEPT ![w] = "progress100"]
  /\ wjob' = [wjob EXCEPT ![w] = 0]
  /\ wphase' = [wphase EXCEPT ![w] = 0]
  /\ UNCHANGED <<pipe, health>>
  /\ UNCHANGED <<waiting, delayed, completed, failed, nextJid, queuedCont,
                 wentry>>

\* an exception inside the try block (a phase throws): the catch block
ProcessDocumentCatch(w) ==
  /\ wpc[w] = "phase"
  /\ CatchBlock(w, StageError)

\* one iteration of simulateProcessingPhases: the awaited notification before
\* it settled with outcome post, then the phase's timer fired
PhaseAfterPost(w, post) ==
  /\ wpc[w] = "phase"
  /\ IF NotifyMainAPIThrows(post)
     THEN CatchBlock(w, PostError)
     ELSE /\ LET job == wjob[w]
                 id == heap[job].id
                 k == wphase[w]
             IN  /\ heap' = [heap EXCEPT ![job].progress = PhaseProgress[k]]
                 /\ jobs' = [jobs EXCEPT ![id] = job]
                 /\ Notify(id, "processing", PhaseProgress[k])
                 /\ IF k < NumPhases
                    THEN /\ wphase' = [wphase EXCEPT ![w] = k + 1]
                         /\ UNCHANGED wpc
                    ELSE /\ wphase' = [wphase EXCEPT ![w] = 0]
                         /\ wpc' = [wpc EXCEPT ![w] = "complete"]
          /\ UNCHANGED <<pipe, health>>
          /\ UNCHANGED <<waiting, delayed, completed, failed, nextJid, queuedCont,
                         wentry, wjob>>

Phase(w) == \E post \in PostOutcomes : PhaseAfterPost(w, post)

\* the completion without the assignment of job.result
CompleteJobWithoutResult(job) ==
  [job EXCEPT !.status = "completed", !.completedAt = TRUE, !.progress = 100]

\* the record as processDocument leaves it at lines 92-109
CompleteJob(job) ==
  [job EXCEPT !.status = "completed", !.completedAt = TRUE, !.progress = 100,
              !.result = TRUE]

\* processDocument after the last phase: the notification of the last phase
\* settled with outcome post
CompleteAfterPost(w, post) ==
  /\ wpc[w] = "complete"
  /\ IF NotifyMainAPIThrows(post)
     THEN CatchBlock(w, PostError)
     ELSE /\ LET job == wjob[w]
                 id == heap[job].id
             IN  /\ heap' = [heap EXCEPT ![job] = CompleteJob(@)]
                 /\ jobs' = [jobs EXCEPT ![id] = job]
                 /\ Notify(id, "completed", 100)
          /\ wpc' = [wpc EXCEPT ![w] = "progress100"]
          /\ wjob' = [wjob EXCEPT ![w] = 0]
          /\ UNCHANGED <<pipe, health>>
          /\ UNCHANGED <<waiting, delayed, completed, failed, nextJid, queuedCont,
                         wentry, wphase>>

Complete(w) == \E post \in PostOutcomes : CompleteAfterPost(w, post)

\* a handler whose return leaves no trace of the entry in the queue
HandlerReturnDropsEntry(w) ==
  /\ wpc[w] = "progress100"
  /\ wentry' = [wentry EXCEPT ![w] = NoEntry]
  /\ wpc' = [wpc EXCEPT ![w] = "idle"]
  /\ UNCHANGED <<pipe, health>>
  /\ UNCHANGED <<lastNote, termNotes, heap, jobs, waiting, delayed, completed, failed,
                 nextJid, queuedCont, wjob, wphase>>

\* processDocument returned; job.progress(100) resolved; the handler returns
\* and Bull moves the entry to completed
HandlerReturn(w) ==
  /\ wpc[w] = "progress100"
  /\ completed' = completed \cup {[wentry[w] EXCEPT !.progress = 100]}
  /\ wentry' = [wentry EXCEPT ![w] = NoEntry]
  /\ wpc' = [wpc EXCEPT ![w] = "idle"]
  /\ UNCHANGED <<pipe, health>>
  /\ UNCHANGED <<lastNote, termNotes, heap, jobs, waiting, delayed, failed, nextJid, queuedCont,
                 wjob, wphase>>

\* job.progress(0) or job.progress(100) rejects: the handler rethrows and Bull
\* counts the attempt, then delays the entry by its backoff for a retry or,
\* with the attempts used up, moves it to failed
HandlerThrow(w) ==
  /\ wpc[w] \in {"progress0", "progress100"}
  /\ LET e == [wentry[w] EXCEPT !.attemptsMade = @ + 1]
     IN  IF e.attemptsMade < MaxAttempts
         THEN /\ delayed' = delayed \cup {[e EXCEPT !.delay = Backoff(e.attemptsMade)]}
              /\ UNCHANGED failed
         ELSE /\ failed' = failed \cup {e}
              /\ UNCHANGED delayed
  /\ wentry' = [wentry EXCEPT ![w] = NoEntry]
  /\ wpc' = [wpc EXCEPT ![w] = "idle"]
  /\ UNCHANGED <<pipe, health>>
  /\ UNCHANGED <<lastNote, termNotes, heap, jobs, waiting, completed, nextJid, queuedCont,
                 wjob, wphase>>

\* the backoff of a delayed entry elapsed: Bull puts it back in the wait list
Promote(e) ==
  /\ e \in delayed
  /\ delayed' = delayed \ {e}
  /\ waiting' = InsertByPriority(waiting, e)
  /\ UNCHANGED <<pipe, health>>
  /\ UNCHANGED <<lastNote, termNotes, heap, jobs, completed, failed, nextJid, queuedCont,
                 wpc, wentry, wjob, wphase>>

\* -------------------------------------------------------- cancelIngestion
\* the record as cancelIngestion leaves it at lines 167-170
CancelJob(job) ==
  [job EXCEPT !.status = "failed", !.error = CancelledByUser,
              !.completedAt = TRUE]

\* cancelIngestion without the test for a failed record
CancelResultIgnoresFailed(id) ==
  IF ~Known(id) THEN FALSE
  ELSE IF Rec(id).status = "completed" THEN FALSE
  ELSE TRUE

\* the `cancelled` field of the answer: false on the early returns of lines
\* 159-165 (no record, or a record already completed or failed)
CancelResult(id) ==
  IF ~Known(id) THEN FALSE
  ELSE IF Rec(id).status = "completed" \/ Rec(id).status = "failed" THEN FALSE
  ELSE TRUE

\* a cancellation that deletes the record from the table
CancelIngestionDeletes(id) ==
  /\ IF ~CancelResult(id)
     THEN UNCHANGED <<heap, jobs, lastNote, termNotes>>
     ELSE /\ heap' = [heap EXCEPT ![jobs[id]] = CancelJob(@)]
          /\ jobs' = [jobs EXCEPT ![id] = 0]
          /\ Notify(id, "failed", Rec(id).progress)
  /\ UNCHANGED <<pipe, health>>
  /\ UNCHANGED <<waiting, delayed, completed, failed, nextJid, queuedCont,
                 wpc, wentry, wjob, wphase>>

CancelIngestion(id) ==
  /\ IF ~CancelResult(id)
     THEN UNCHANGED <<heap, jobs, lastNote, termNotes>>
     ELSE /\ heap' = [heap EXCEPT ![jobs[id]] = CancelJob(@)]
          /\ jobs' = [jobs EXCEPT ![id] = jobs[id]]
          /\ Notify(id, "failed", Rec(id).progress)
  /\ UNCHANGED <<pipe, health>>
  /\ UNCHANGED <<waiting, delayed, completed, failed, nextJid, queuedCont,
                 wpc, wentry, wjob, wphase>>

\* the callers of the service: submissions
Submit ==
  \E id \in Ids, p \in Priorities : TriggerIngestion(id, p)

\* everything the service does on its own once a job is submitted
Work ==
  \/ \E id \in Ids : TriggerReturn(id)
  \/ \E w \in Workers : Claim(w)
  \/ \E w \in Workers : ProcessDocumentStart(w)
  \/ \E w \in Workers : Phase(w)
  \/ \E w \in Workers : Complete(w)
  \/ \E w \in Workers : ProcessDocumentCatch(w)
  \/ \E w \in Workers : HandlerReturn(w)

Next ==
  \/ Submit
  \/ Work
  \/ \E id \in Ids : CancelIngestion(id)

Spec == Init /\ [][Next]_vars

\* ------------------------------------------------------------ Scenario E
\* a cancel request that arrives while the job is queued and no worker has
\* claimed an entry of its id
Unclaimed(id) ==
  /\ Known(id)
  /\ Rec(id).status = "queued"
  /\ \E i \in 1..Len(waiting) : waiting[i].id = id
  /\ \A w \in Workers : wentry[w].id # id

CancelWhileQueued(id) ==
  /\ Unclaimed(id)
  /\ CancelIngestion(id)

\* the system when every cancel request is of that kind
NextE ==
  \/ Submit
  \/ Work
  \/ \E id \in Ids : CancelWhileQueued(id)

SpecE == Init /\ [][NextE]_vars

\* ---------------------------------------------------------------- faults
\* the number of submissions explored together with faults
FaultSubmits == 1

\* the same system when the queue's store can fail under the service
\* (queue.add or job.progress rejects); a rejecting job.progress is what
\* sends an entry to Bull's retry path
FaultNext ==
  \/ (Len(heap) < FaultSubmits /\ Submit)
  \/ Work
  \/ \E id \in Ids : CancelIngestion(id)
  \/ \E id \in Ids : (Len(heap) < FaultSubmits /\ TriggerIngestionRejected(id))
  \/ \E w \in Workers : HandlerThrow(w)
  \/ \E e \in delayed : Promote(e)

FaultSpec == Init /\ [][FaultNext]_vars

\* ---------------------------------------------------------------- fairness
\* Bull dispatches a waiting entry to a free handler, and the timers and
\* promises a handler awaits resolve: no enabled worker step waits forever
WorkerFairness ==
  \A w \in Workers :
    /\ WF_vars(Claim(w))
    /\ WF_vars(ProcessDocumentStart(w))
    /\ WF_vars(Phase(w))
    /\ WF_vars(Complete(w))
    /\ WF_vars(HandlerReturn(w))

LiveSpec == Init /\ [][Next]_vars /\ WorkerFairness

\* ------------------------------------------------------------------ stats
\* QueueService.getQueueStats: the lengths of Bull's five lists and their sum
QueueStats ==
  LET nWaiting == Len(waiting)
      nActive == Cardinality({w \in Workers : wentry[w] # NoEntry})
      nCompleted == Cardinality(completed)
      nFailed == Cardinality(failed)
      nDelayed == Cardinality(delayed)
  IN  [waiting |-> nWaiting, active |-> nActive, completed |-> nCompleted,
       failed |-> nFailed, delayed |-> nDelayed,
       total |-> nWaiting + nActive + nCompleted + nFailed + nDelayed]

\* the number of records of the job table whose status is in S
JobsWithStatus(S) == Cardinality({id \in Ids : Known(id) /\ Rec(id).status \in S})

\* ProcessingService.getQueueStats: the queue's statistics extended with the
\* counts over jobs.values(), for a call whose reads all see the current state
GetQueueStats ==
  [queue |-> QueueStats,
   activeJobs |-> JobsWithStatus({"processing", "queued"}),
   completedJobs |-> JobsWithStatus({"completed"}),
   failedJobs |-> JobsWithStatus({"failed"})]

\* ----------------------------------------------------------------- restart
\* queue entries left in Redis by an earlier run of the service
LeftoverEntries == 1

\* the service after a restart: the job table is a new, empty Map, while the
\* queue lives in Redis and still holds the entries (with the default
\* priority) that the earlier run added for id "a"
InitAfterRestart ==
  /\ heap = <<>>
  /\ jobs = [id \in Ids |-> 0]
  /\ waiting = [j \in 1..LeftoverEntries |->
                  [jid |-> j, id |-> "a", prio |-> DefaultPriority,
                   attemptsMade |-> 0, progress |-> 0, delay |-> 0]]
  /\ delayed = {}
  /\ completed = {}
  /\ failed = {}
  /\ nextJid = LeftoverEntries + 1
  /\ queuedCont = [id \in Ids |-> 0]
  /\ wpc = [w \in Workers |-> "idle"]
  /\ wentry = [w \in Workers |-> NoEntry]
  /\ wjob = [w \in Workers |-> 0]
  /\ wphase = [w \in Workers |-> 0]
  /\ lastNote = [id \in Ids |-> NoNote]
  /\ termNotes = [id \in Ids |-> 0]
  /\ docPc = "idle"
  /\ docConfig = [k \in Stages |-> FALSE]
  /\ docStage = 0
  /\ docRan = <<>>
  /\ docResult = NewResult
  /\ docProgress = 0
  /\ docCallbacks = <<>>
  /\ docPost = "none"
  /\ docJobProgress = 0
  /\ docOutcome = "none"
  /\ hPc = "idle"
  /\ hCall = "none"
  /\ hFailed = {}
  /\ hResult = NoHealth
  /\ hOutcome = "none"

\* the restarted service, with a failing queue store and fair workers
RestartSpec == InitAfterRestart /\ [][FaultNext]_vars /\ WorkerFairness

\* --------------------------------------------------- the document pipeline
\* sendProcessingCallback wraps the POST in try/catch and only logs in the
\* catch: no outcome of the POST makes the promise it returns reject
SendProcessingCallbackThrows(post) == FALSE

\* QueueConsumerService.processDocument is invoked for an entry whose config
\* is cfg: job.progress(0), then DocumentProcessorService.processDocument
\* builds its result literal and enters the try block
ConsumerStart(cfg) ==
  /\ docPc = "idle"
  /\ docPc' = "stage"
  /\ docConfig' = cfg
  /\ docStage' = 1
  /\ docRan' = <<>>
  /\ docResult' = NewResult
  /\ docProgress' = 0
  /\ docCallbacks' = <<>>
  /\ docPost' = "none"
  /\ docJobProgress' = 0
  /\ docOutcome' = "none"
  /\ UNCHANGED <<life, health>>

\* the head of one `if (job.config.<flag>)` block: a disabled stage is
\* skipped; for an enabled one updateProgress reports the stage's value and
\* the stage function is called and runs to its delay
EnterStage ==
  /\ docPc = "stage"
  /\ docStage <= NumStages
  /\ IF docConfig[docStage]
     THEN /\ docProgress' = StageProgress[docStage]
          /\ docRan' = Append(docRan, StageName[docStage])
          /\ docPc' = "running"
          /\ UNCHANGED docStage
     ELSE /\ docStage' = docStage + 1
          /\ UNCHANGED <<docProgress, docRan, docPc>>
  /\ UNCHANGED <<docConfig, docResult, docCallbacks, docPost, docJobProgress,
                 docOutcome>>
  /\ UNCHANGED <<life, health>>

\* a stage function that assigns its field although its flag is off
RunStageAnyField ==
  /\ docPc = "running"
  /\ docResult' = [docResult EXCEPT !.fields = @ \cup StageField[docStage]
                                                   \cup StageField[1]]
  /\ docStage' = docStage + 1
  /\ docPc' = "stage"
  /\ UNCHANGED <<docConfig, docRan, docProgress, docCallbacks, docPost,
                 docJobProgress, docOutcome>>
  /\ UNCHANGED <<life, health>>

\* the stage function returns and its value is assigned to the stage's field
\* of the result
RunStage ==
  /\ docPc = "running"
  /\ docResult' = [docResult EXCEPT !.fields = @ \cup StageField[docStage]]
  /\ docStage' = docStage + 1
  /\ docPc' = "stage"
  /\ UNCHANGED <<docConfig, docRan, docProgress, docCallbacks, docPost,
                 docJobProgress, docOutcome>>
  /\ UNCHANGED <<life, health>>

\* a catch block that records the error and lets the pipeline go on with the
\* next stage
StageThrowsAndContinues ==
  /\ docPc = "running"
  /\ docResult' = [docResult EXCEPT !.success = FALSE, !.errors = <<StageError>>]
  /\ docStage' = docStage + 1
  /\ docPc' = "stage"
  /\ UNCHANGED <<docConfig, docRan, docProgress, docCallbacks, docPost,
                 docJobProgress, docOutcome>>
  /\ UNCHANGED <<life, health>>

\* the stage function throws: the catch block of processDocument (lines
\* 80-94) up to its sendProcessingCallback
StageThrows ==
  /\ docPc = "running"
  /\ docResult' = [docResult EXCEPT !.success = FALSE, !.errors = <<StageError>>]
  /\ docPc' = "callbackFailure"
  /\ UNCHANGED <<docConfig, docStage, docRan, docProgress, docCallbacks, docPost,
                 docJobProgress, docOutcome>>
  /\ UNCHANGED <<life, health>>

\* after the last stage: updateProgress(100), success = true, up to the
\* sendProcessingCallback of line 77
FinishStages ==
  /\ docPc = "stage"
  /\ docStage = NumStages + 1
  /\ docProgress' = 100
  /\ docResult' = [docResult EXCEPT !.success = TRUE]
  /\ docPc' = "callbackSuccess"
  /\ UNCHANGED <<docConfig, docStage, docRan, docCallbacks, docPost, docJobProgress,
                 docOutcome>>
  /\ UNCHANGED <<life, health>>

\* sendProcessingCallback POSTs the result and the POST settles with outcome
\* post.  Were it to throw on the success path, the catch block of
\* processDocument would run; were it to throw inside that catch block, the
\* exception would leave processDocument and the handler would rethrow it.
SendProcessingCallback(post) ==
  /\ docPc \in {"callbackSuccess", "callbackFailure"}
  /\ docCallbacks' = Append(docCallbacks, docResult)
  /\ docPost' = post
  /\ IF SendProcessingCallbackThrows(post)
     THEN IF docPc = "callbackSuccess"
          THEN /\ docResult' = [docResult EXCEPT !.success = FALSE,
                                                 !.errors = <<PostError>>]
               /\ docPc' = "callbackFailure"
               /\ UNCHANGED docOutcome
          ELSE /\ docPc' = "idle"
               /\ docOutcome' = "thrown"
               /\ UNCHANGED docResult
     ELSE /\ docPc' = "progress100"
          /\ UNCHANGED <<docResult, docOutcome>>
  /\ UNCHANGED <<docConfig, docStage, docRan, docProgress, docJobProgress>>
  /\ UNCHANGED <<life, health>>

\* processDocument returned its result: job.progress(100), and the handler
\* returns the result to Bull, which moves the entry to completed and emits
\* 'completed'
ConsumerReturn ==
  /\ docPc = "progress100"
  /\ docJobProgress' = 100
  /\ docOutcome' = "returned"
  /\ docPc' = "completedEvent"
  /\ UNCHANGED <<docConfig, docStage, docRan, docResult, docProgress, docCallbacks,
                 docPost>>
  /\ UNCHANGED <<life, health>>

\* the payload sendCompletionCallback builds from the handler's result:
\* success is the literal true, the stage outputs are copied, errors are not
CompletionPayload(result) ==
  [success |-> TRUE, errors |-> <<>>, fields |-> result.fields]

\* the 'completed' listener of onModuleInit: sendCompletionCallback POSTs its
\* payload to the callback endpoint when MAIN_BACKEND_URL and SERVICE_TOKEN
\* are configured, and returns without a POST when one is missing
CompletedListener(configured) ==
  /\ docPc = "completedEvent"
  /\ docCallbacks' = IF configured
                     THEN Append(docCallbacks, CompletionPayload(docResult))
                     ELSE docCallbacks
  /\ docPc' = "idle"
  /\ UNCHANGED <<docConfig, docStage, docRan, docResult, docProgress, docPost,
                 docJobProgress, docOutcome>>
  /\ UNCHANGED <<life, health>>

PipeNext ==
  \/ \E cfg \in [Stages -> BOOLEAN] : ConsumerStart(cfg)
  \/ EnterStage
  \/ RunStage
  \/ StageThrows
  \/ FinishStages
  \/ \E post \in PostOutcomes : SendProcessingCallback(post)
  \/ ConsumerReturn
  \/ \E configured \in BOOLEAN : CompletedListener(configured)

PipeSpec == Init /\ [][PipeNext]_vars

\* the service as a whole: the job lifecycle engine and the document pipeline
\* share no state, so a run exercises one of them from the initial state
PipeUntouched == docPc = "idle" /\ docOutcome = "none"

LifeUntouched == Len(heap) = 0

ServiceNext ==
  \/ (PipeUntouched /\ Next)
  \/ (LifeUntouched /\ PipeNext)

ServiceSpec == Init /\ [][ServiceNext]_vars

\* ------------------------------------------------------ the health service
\* the five queue reads getQueueStats issues together in one Promise.all
StatReads == {"getWaiting", "getActive", "getCompleted", "getFailed", "getDelayed"}

\* the message of the error a rejecting read r throws
ReadError(r) == r

\* a catch block that logs the error and throws it on to the caller
HealthCatchRethrows(msg) ==
  /\ hOutcome' = "thrown"
  /\ hPc' = "idle"
  /\ UNCHANGED hResult

\* the catch blocks of getHealthStatus and getQueueHealth: log the error and
\* return an object with status 'unhealthy' and the error's message
HealthCatch(msg) ==
  /\ hResult' = [status |-> "unhealthy", error |-> msg]
  /\ hOutcome' = "returned"
  /\ hPc' = "idle"

\* the return statement inside the try block of either method
Healthy ==
  /\ hResult' = [status |-> "healthy", error |-> NoError]
  /\ hOutcome' = "returned"
  /\ hPc' = "idle"

\* a call of getHealthStatus or of getQueueHealth, up to its first await
HealthCall(call) ==
  /\ hPc = "idle"
  /\ hCall' = call
  /\ hPc' = "stats"
  /\ hFailed' = {}
  /\ hResult' = NoHealth
  /\ hOutcome' = "none"
  /\ UNCHANGED <<life, pipe>>

GetHealthStatus == HealthCall("getHealthStatus")

GetQueueHealth == HealthCall("getQueueHealth")

\* QueueConsumerService.getQueueStats settles, the reads in F having
\* rejected: Promise.all rejects with the error of the first of them to
\* reject, and resolves when none did; getHealthStatus then returns its
\* answer and getQueueHealth goes on to getActiveJobs
ConsumerGetQueueStats(F) ==
  /\ hPc = "stats"
  /\ hFailed' = F
  /\ IF F # {}
     THEN \E r \in F : HealthCatch(ReadError(r))
     ELSE IF hCall = "getHealthStatus"
          THEN Healthy
          ELSE /\ hPc' = "active"
               /\ UNCHANGED <<hResult, hOutcome>>
  /\ UNCHANGED hCall
  /\ UNCHANGED <<life, pipe>>

\* getQueueHealth: `await this.queueConsumer.getActiveJobs()` settles
GetActiveJobs(ok) ==
  /\ hPc = "active"
  /\ IF ok
     THEN /\ hPc' = "waiting"
          /\ UNCHANGED <<hFailed, hResult, hOutcome>>
     ELSE /\ hFailed' = hFailed \cup {"getActiveJobs"}
          /\ HealthCatch(ReadError("getActiveJobs"))
  /\ UNCHANGED hCall
  /\ UNCHANGED <<life, pipe>>

\* getQueueHealth: `await this.queueConsumer.getWaitingJobs()` settles, and
\* the method returns
GetWaitingJobs(ok) ==
  /\ hPc = "waiting"
  /\ IF ok
     THEN /\ Healthy
          /\ UNCHANGED hFailed
     ELSE /\ hFailed' = hFailed \cup {"getWaitingJobs"}
          /\ HealthCatch(ReadError("getWaitingJobs"))
  /\ UNCHANGED hCall
  /\ UNCHANGED <<life, pipe>>

HealthNext ==
  \/ GetHealthStatus
  \/ GetQueueHealth
  \/ \E F \in SUBSET StatReads : ConsumerGetQueueStats(F)
  \/ \E ok \in BOOLEAN : GetActiveJobs(ok)
  \/ \E ok \in BOOLEAN : GetWaitingJobs(ok)

\* the health endpoints called one call after the other
HealthSpec == Init /\ [][HealthNext]_vars

\* ============================================================ properties
Objs == 1..Len(heap)

Terminal(job) == job.status \in {"completed", "failed"}

\* a record whose cancellation was accepted (cancelIngestion wrote it)
CancelAccepted(job) == job.error = CancelledByUser

\* a worker is inside ProcessingService.processDocument
Executing(w) == wpc[w] \in {"phase", "complete"}

\* C1: once a record is completed or failed (the failed state written by
\* cancelIngestion included), no later step changes its status, progress,
\* result or error.
C1_TerminalSticky ==
  [][\A o \in Objs :
       Terminal(heap[o]) =>
         /\ heap'[o].status = heap[o].status
         /\ heap'[o].progress = heap[o].progress
         /\ heap'[o].result = heap[o].result
         /\ heap'[o].error = heap[o].error]_vars

\* C2: after cancelIngestion accepted the cancellation of a record (the code
\* writes failed / 'Cancelled by user' for it), the record stays cancelled:
\* no step writes processing or completed for it afterwards.
C2_CancelledStays ==
  [][\A o \in Objs :
       (CancelAccepted(heap[o]) /\ heap'[o].status # heap[o].status) =>
         heap'[o].status \notin {"processing", "completed"}]_vars

\* C3: cancelIngestion(id) answers {cancelled: false} and changes nothing (no
\* record created, no field written, no notification) when id is unknown or
\* its record is completed or failed; it answers {cancelled: true} only for a
\* record that was queued or processing at the call.
C3_CancelAnswer ==
  [][\A id \in Ids :
       CancelIngestion(id) =>
         /\ (~Known(id) \/ Terminal(Rec(id))) =>
              (~CancelResult(id) /\ UNCHANGED <<heap, jobs, lastNote, termNotes>>)
         /\ CancelResult(id) =>
              (Known(id) /\ Rec(id).status \in {"queued", "processing"})]_vars

\* C3 witness: a cancellation of "a" was accepted (its record is now failed
\* with 'Cancelled by user', so a second cancel is refused) while "b" is
\* unknown to the table.
C3_Witness ==
  /\ Known("a")
  /\ Rec("a").status = "failed"
  /\ CancelAccepted(Rec("a"))
  /\ lastNote["a"] = [status |-> "failed", progress |-> 10]
  /\ ~Known("b")

\* C4 (Scenario E): a record cancelled while queued, before any worker claimed
\* its entry, is not processed when a worker later claims the entry: the
\* worker does not set it to processing and runs no phase on it.
C4_CancelledNeverStarts ==
  [][\A w \in Workers :
       (/\ wpc[w] = "progress0"
        /\ Known(wentry[w].id)
        /\ CancelAccepted(Rec(wentry[w].id))
        /\ ~Rec(wentry[w].id).startedAt) =>
         /\ wpc'[w] # "phase"
         /\ Rec(wentry[w].id)'.status # "processing"]_vars

\* C5: the store status of a job becomes failed by a failing attempt only when
\* that attempt is the 3rd (maxAttempts) one.
C5_FailedOnlyAfterMaxAttempts ==
  [][\A w \in Workers :
       ProcessDocumentCatch(w) => wentry[w].attemptsMade + 1 = MaxAttempts]_vars

\* C6: at most one worker is executing processDocument for a given id.
C6_SingleExecution ==
  \A w1, w2 \in Workers :
    (w1 # w2 /\ Executing(w1) /\ Executing(w2)) =>
      heap[wjob[w1]].id # heap[wjob[w2]].id

\* the waiting entries belong to different jobs
OneEntryPerId ==
  \A i, j \in 1..Len(waiting) : waiting[i].id = waiting[j].id => i = j

\* C7: the entry a worker claims has the numerically highest priority of the
\* waiting entries, and among the entries of that priority it is the one
\* submitted first (stated for wait lists that hold one entry per job).
C7_HighestPriorityFirst ==
  [][\A w \in Workers :
       (Claim(w) /\ OneEntryPerId) =>
         \A i \in 1..Len(waiting) :
           /\ waiting[i].prio <= wentry'[w].prio
           /\ waiting[i].prio = wentry'[w].prio => wentry'[w].jid <= waiting[i].jid]_vars

\* C8: the progress of the record of an id is an integer in 0..100 and does
\* not decrease from one state to the next while its status is queued or
\* processing.
C8_ProgressMonotone ==
  [][\A id \in Ids :
       (/\ Known(id)
        /\ Rec(id).status \in {"queued", "processing"}
        /\ Rec(id)'.status \in {"queued", "processing"}) =>
         /\ Rec(id)'.progress \in 0..100
         /\ Rec(id)'.progress >= Rec(id).progress]_vars

\* the edges of the state machine; the failed status that cancelIngestion
\* writes is read as the machine's cancelled
C9Edges ==
  {<<"queued", "processing">>, <<"processing", "completed">>,
   <<"processing", "failed">>, <<"queued", "cancelled">>,
   <<"processing", "cancelled">>}

StatusName(job) ==
  IF job.status = "failed" /\ CancelAccepted(job) THEN "cancelled" ELSE job.status

\* C9: every change of a record's status follows an edge of the state machine
\* queued -> processing, processing -> completed | failed,
\* queued | processing -> cancelled.
C9_StateMachine ==
  [][\A o \in Objs :
       StatusName(heap'[o]) # StatusName(heap[o]) =>
         <<StatusName(heap[o]), StatusName(heap'[o])>> \in C9Edges]_vars

\* the job of id ran into a cancellation or a failing phase
Disturbed(id) ==
  \E o \in Objs : heap[o].id = id /\ heap[o].error # NoError

CompletedOK(id) ==
  /\ Known(id)
  /\ Rec(id).status = "completed"
  /\ Rec(id).progress = 100
  /\ Rec(id).result

\* C10: under fair scheduling of the workers, a submitted job that is never
\* cancelled and whose phases all succeed eventually is completed with
\* progress 100 and a result.
C10_EventuallyCompleted ==
  \A id \in Ids : ([]~Disturbed(id)) => (Known(id) ~> CompletedOK(id))

\* C10 witness: a job went from submission to completed without disturbance.
C10_Witness ==
  /\ CompletedOK("a")
  /\ ~Disturbed("a")
  /\ lastNote["a"] = [status |-> "completed", progress |-> 100]

\* id was submitted once: one job carries it
SubmittedOnce(id) == Cardinality({o \in Objs : heap[o].id = id}) = 1

\* C11: over the lifetime of a job at most one terminal notification
\* ('completed' or 'failed') is issued for it, never both and never two of
\* a kind, whatever the interleaving of worker runs and cancel requests.
C11_OneTerminalNotification ==
  \A id \in Ids : SubmittedOnce(id) => termNotes[id] <= 1

\* C12: a notification that cannot be delivered changes nothing: whatever way
\* the POST of notifyMainAPI settles (ok, timeout, error), the step of
\* processDocument that awaited it writes the job table exactly as it does
\* after a delivered one; and whatever way the POST of sendProcessingCallback
\* settles, the pipeline returns the result it built and the handler does
\* not throw.  Neither notifier throws into its caller.
C12_NotificationFailureNonFatal ==
  [][/\ \A w \in Workers, post \in PostOutcomes :
          /\ PhaseAfterPost(w, post) => PhaseAfterPost(w, "ok")
          /\ CompleteAfterPost(w, post) => CompleteAfterPost(w, "ok")
     /\ \A post \in PostOutcomes :
          SendProcessingCallback(post) =>
            /\ docPc' = "progress100"
            /\ docResult' = docResult
            /\ docOutcome' # "thrown"
            /\ Len(docCallbacks') = 1]_vars

\* C12 witness: the POST of the callback of a successful run timed out, and
\* the handler returned the successful result all the same.
C12_Witness ==
  /\ docPost = "timeout"
  /\ docOutcome = "returned"
  /\ docJobProgress = 100
  /\ docResult.success
  /\ docCallbacks = <<docResult>>

\* C13: the handler acknowledges a queue entry as completed only if the
\* record of the entry's job has status completed; a processing failure inside
\* processDocument is never acknowledged as a success.
C13_AckOnlyIfCompleted ==
  [][\A w \in Workers :
       HandlerReturn(w) =>
         /\ Known(wentry[w].id)
         /\ Rec(wentry[w].id).status = "completed"]_vars

\* the queue ids an entry can carry
EntryIds == 1..(LeftoverEntries + FaultSubmits)

\* the number of places of the queue that hold the entry with queue id j
EntryPlaces(j) ==
  Cardinality({i \in 1..Len(waiting) : waiting[i].jid = j})
  + Cardinality({w \in Workers : wentry[w].jid = j})
  + Cardinality({e \in delayed : e.jid = j})
  + Cardinality({e \in completed : e.jid = j})
  + Cardinality({e \in failed : e.jid = j})

\* a worker holds the entry
Claimed(j) == \E w \in Workers : wentry[w].jid = j

\* the entry was acknowledged (completed), scheduled for a retry (delayed) or
\* dead-lettered (failed)
Settled(j) == \E e \in completed \cup delayed \cup failed : e.jid = j

\* C14: no entry is dropped: every entry the queue ever issued is in exactly
\* one place (waiting, held by a worker, completed, delayed for a retry, or
\* failed), and under fair scheduling every claimed entry ends acknowledged,
\* scheduled for a retry or dead-lettered; this includes a claimed entry whose
\* ingestionId has no record in the job table ('Job not found').
C14_NoEntryDropped ==
  /\ [](\A j \in EntryIds : j < nextJid => EntryPlaces(j) = 1)
  /\ \A j \in EntryIds : Claimed(j) ~> Settled(j)

\* C14 witness: the entry left for "a" was claimed while the table had no
\* record of "a" and was acknowledged, and a retried entry of "b" is dead.
C14_Witness ==
  /\ ~Known("a")
  /\ \E e \in completed : e.id = "a" /\ e.progress = 100
  /\ \E e \in failed : e.id = "b" /\ e.attemptsMade = MaxAttempts

\* C15: an exception thrown by a phase or stage does not leave the executor:
\* ProcessingService.processDocument stores failed for the job and returns to
\* the handler, DocumentProcessorService.processDocument turns it into a result
\* with success = false, reports that result and returns it; and whenever a
\* run of ProcessingService.processDocument ends, the job it worked on is
\* completed or failed, not processing.
C15_ExceptionsConverted ==
  [][/\ \A w \in Workers :
          /\ ProcessDocumentCatch(w) =>
               /\ heap'[wjob[w]].status = "failed"
               /\ heap'[wjob[w]].error = StageError
               /\ wpc'[w] = "progress100"
          /\ (Executing(w) /\ ~Executing(w)') => Terminal(heap'[wjob[w]])
     /\ StageThrows =>
          /\ ~docResult'.success
          /\ docResult'.errors = <<StageError>>
          /\ docPc' = "callbackFailure"
     /\ ConsumerReturn =>
          /\ docCallbacks = <<docResult>>
          /\ docResult.success = (docResult.errors = <<>>)
     /\ docOutcome' # "thrown"]_vars

\* C15 witness: a phase threw while "a" was processed; the record is failed
\* with the error, 'failed' was notified and the handler returned.
C15_Witness ==
  /\ Known("a")
  /\ Rec("a").status = "failed"
  /\ Rec("a").error = StageError
  /\ lastNote["a"].status = "failed"
  /\ termNotes["a"] = 1
  /\ \A w \in Workers : wpc[w] = "idle"
  /\ \E e \in completed : e.id = "a"

\* C16: in every reachable state a record has a result only if its status
\* is completed.
C16_ResultOnlyIfCompleted ==
  \A o \in Objs : heap[o].result => heap[o].status = "completed"

\* C17: in every reachable state a record has an error only if its status is
\* failed; a processing or completed record never carries 'Cancelled by
\* user'.
C17_ErrorOnlyIfFailed ==
  \A o \in Objs : heap[o].error # NoError => heap[o].status = "failed"

\* C18: startedAt is written once (when the record becomes processing) and
\* completedAt is written once (when it becomes completed or failed): no step
\* writes a timestamp that the record already has.
C18_TimestampsWrittenOnce ==
  [][/\ \A w \in Workers :
          /\ (ProcessDocumentStart(w) /\ Known(wentry[w].id)) =>
               ~Rec(wentry[w].id).startedAt
          /\ (Complete(w) \/ ProcessDocumentCatch(w)) =>
               ~heap[wjob[w]].completedAt
     /\ \A id \in Ids :
          (CancelIngestion(id) /\ CancelResult(id)) => ~Rec(id).completedAt]_vars

\* the number of jobs the job table knows
KnownJobs == Cardinality({id \in Ids : Known(id)})

\* C19: the snapshot getQueueStats returns is consistent with the job table:
\* its per-state counts sum to its total, and the total is the number of jobs
\* the table knows at the call.
C19_StatsConsistent ==
  LET s == GetQueueStats
  IN  /\ s.queue.waiting + s.queue.active + s.queue.completed + s.queue.failed
           + s.queue.delayed = s.queue.total
      /\ s.activeJobs + s.completedJobs + s.failedJobs = KnownJobs
      /\ s.queue.total = KnownJobs

\* C20: a triggerIngestion call for an id that already has a record leaves
\* the record in place, with its status and progress, and adds no second
\* queue entry for the id.
C20_IdsUnique ==
  [][\A id \in Ids, p \in Priorities :
       (TriggerIngestion(id, p) /\ Known(id)) =>
         /\ jobs'[id] = jobs[id]
         /\ Rec(id)'.status = Rec(id).status
         /\ Rec(id)'.progress = Rec(id).progress
         /\ waiting' = waiting]_vars

\* C21: a record created by triggerIngestion stays in the table: no step
\* removes it, so getIngestionStatus(id) keeps returning a record of that id
\* for every id submitted earlier.
C21_RecordStaysQueryable ==
  [][\A id \in Ids : Known(id) => (Known(id)' /\ Rec(id)'.id = id)]_vars

\* C21 witness: both ids were submitted, a cancellation of "a" was accepted
\* and both were processed to the end; everything is over and both are still
\* known.
C21_Witness ==
  /\ Known("a") /\ CancelAccepted(Rec("a")) /\ Rec("a").status = "completed"
  /\ Known("b") /\ Rec("b").status = "completed"
  /\ waiting = <<>>
  /\ \A w \in Workers : wpc[w] = "idle"

\* the order of the stages
StageOrder == <<"extractText", "performOCR", "extractKeywords",
                "generateSummary", "detectLanguage", "indexForSearch">>

\* the subsequence of the first n stages of that order whose flag is on
RECURSIVE ExpectedRun(_, _)
ExpectedRun(cfg, n) ==
  IF n = 0 THEN <<>>
  ELSE ExpectedRun(cfg, n - 1) \o (IF cfg[n] THEN <<StageOrder[n]>> ELSE <<>>)

\* C22: the pipeline calls the stage functions in the order extractText,
\* performOCR, extractKeywords, generateSummary, detectLanguage, search
\* indexing: at every point of a run the stages called so far are exactly the
\* enabled ones among the stages reached, in that order, and on a successful
\* run exactly the enabled ones among all six.
C22_StageOrder ==
  /\ docPc = "stage" => docRan = ExpectedRun(docConfig, docStage - 1)
  /\ docPc = "running" => docRan = ExpectedRun(docConfig, docStage)
  /\ docResult.success => docRan = ExpectedRun(docConfig, NumStages)

\* C22 witness: a run with performOCR and generateSummary switched off
\* returned successfully after the four other stages.
C22_Witness ==
  /\ docOutcome = "returned"
  /\ docResult.success
  /\ docConfig = [k \in Stages |-> k \in {1, 3, 5, 6}]
  /\ docRan = <<"extractText", "extractKeywords", "detectLanguage",
                "indexForSearch">>

\* a stage of the current run threw
Aborted == docResult.errors # <<>>

\* C23: when an enabled stage throws, the pipeline stops there: no later
\* stage is called in that run, the result has success = false and carries
\* the error message, and the 100% step of the pipeline is not reported.
C23_AbortOnStageFailure ==
  Aborted =>
    /\ docPc \notin {"stage", "running"}
    /\ docRan = ExpectedRun(docConfig, docStage)
    /\ ~docResult.success
    /\ docResult.errors = <<StageError>>
    /\ docProgress = StageProgress[docStage]

\* C23 witness: with every stage enabled performOCR threw; the run returned
\* a failed result after two stage calls, with progress at OCR's value.
C23_Witness ==
  /\ docOutcome = "returned"
  /\ Aborted
  /\ docConfig = [k \in Stages |-> TRUE]
  /\ docRan = <<"extractText", "performOCR">>
  /\ docProgress = 30
  /\ docCallbacks[1].success = FALSE

\* stage k is the last enabled stage of the run's config
LastEnabled(k) == docConfig[k] /\ \A j \in Stages : j > k => ~docConfig[j]

\* C24: the progress values the pipeline reports are strictly increasing and
\* scaled to the enabled stages: the value reported for the last enabled stage
\* is 100.
C24_ProgressScaled ==
  [][(EnterStage /\ docConfig[docStage]) =>
       /\ docProgress' > docProgress
       /\ LastEnabled(docStage) => docProgress' = 100]_vars

\* stage k of the current run has finished successfully
Succeeded(k) == docConfig[k] /\ docStage > k

\* C25: the progress value of a stage is reported only after the stage has
\* finished successfully.
C25_ProgressAfterSuccess ==
  \A k \in Stages :
    (docPc # "idle" /\ docProgress = StageProgress[k]) => Succeeded(k)

\* the result field each of the first five stages produces
OutputField == <<"extractedText", "ocrText", "keywords", "summary", "language">>

\* C26: the result of a successful run contains the output field of a stage
\* exactly if the stage's flag was on.
C26_ResultFields ==
  docResult.success =>
    \A k \in 1..Len(OutputField) :
      (OutputField[k] \in docResult.fields) <=> docConfig[k]

\* C26 witness (Scenario D): a run with only extractText enabled returned a
\* successful result that contains extractedText and nothing else.
C26_Witness ==
  /\ docOutcome = "returned"
  /\ docResult.success
  /\ docConfig = [k \in Stages |-> k = 1]
  /\ docResult.fields = {"extractedText"}

\* C30: for one run of the handler exactly one outcome callback is POSTed to
\* the backend's callback endpoint: never a second one, and one once the run
\* and its listeners are over.
C30_OneCallback ==
  /\ Len(docCallbacks) <= 1
  /\ (docPc = "idle" /\ docOutcome = "returned") => Len(docCallbacks) = 1

\* C27: the record of a job is in the table before its queue entry exists,
\* so no claimed entry carries an id the job table does not know: when a
\* worker runs processDocument for the entry it claimed, it finds the record.
C27_StoreBeforeQueue ==
  [][\A w \in Workers : ProcessDocumentStart(w) => Known(wentry[w].id)]_vars

\* the retry delays of the queue's configuration, attempt by attempt
RetryDelays == <<2000, 6000>>

StepOf(a) ==
  \/ \E p \in Priorities : TriggerIngestion(a, p)
  \/ TriggerReturn(a)
  \/ CancelIngestion(a)
  \/ \E w \in Workers :
       /\ wentry[w].id = a
       /\ \/ ProcessDocumentStart(w)
          \/ Phase(w)
          \/ Complete(w)
          \/ ProcessDocumentCatch(w)

\* C29: an operation on one job does not touch another: for distinct ids a
\* and b, a step of triggerIngestion, processDocument, simulateProcessingPhases
\* or cancelIngestion for a leaves the table's entry for b and every record
\* of b (status, progress, result, error, timestamps) as they were.
C29_FrameAcrossJobs ==
  [][\A a, b \in Ids :
       (a # b /\ StepOf(a)) =>
         /\ jobs'[b] = jobs[b]
         /\ \A o \in Objs : heap[o].id = b => heap'[o] = heap[o]]_vars

\* C29 witness: while "a" is being processed (progress 60), "b" was
\* submitted and cancelled before any worker touched it.
C29_Witness ==
  /\ Known("a") /\ Rec("a").status = "processing" /\ Rec("a").progress = 60
  /\ Known("b") /\ CancelAccepted(Rec("b")) /\ Rec("b").status = "failed"
  /\ Rec("b").progress = 0
  /\ ~Rec("b").startedAt

\* C31: a callback carrying success: true is POSTed only for a run in which
\* every enabled stage succeeded: when the pipeline's result has success =
\* false, the entry is not reported as completed (the handler does not
\* return to the queue) and no callback with success: true is posted.
C31_SuccessCallbackOnlyOnSuccess ==
  ~docResult.success =>
      /\ docOutcome # "returned"
      /\ \A i \in 1..Len(docCallbacks) : ~docCallbacks[i].success

\* the run of the entry worker w holds ended with its job completed: the
\* table knows the id, and its record is completed and carries no cancel
JobCompletedOK(w) ==
  /\ Known(wentry[w].id)
  /\ Rec(wentry[w].id).status = "completed"
  /\ ~CancelAccepted(Rec(wentry[w].id))

\* C32: a worker handler sets the progress of its queue entry to 100 only if
\* the job completed successfully: never for a run whose job ended failed,
\* was cancelled or was not found in the table (handleDocumentProcessing),
\* nor for a pipeline run whose result is a failure (QueueConsumerService).
C32_Progress100OnlyOnSuccess ==
  [][/\ \A w \in Workers : HandlerReturn(w) => JobCompletedOK(w)
     /\ ConsumerReturn => docResult.success]_vars

Notified(id, S) ==
  /\ lastNote'[id] # lastNote[id]
  /\ lastNote'[id].status \in S

\* C34: a terminal notification is the last one of its job: once a
\* 'completed' or 'failed' notification has been issued for a job, no
\* 'processing' or 'queued' notification is issued for it any more.
C34_TerminalNotificationLast ==
  [][\A id \in Ids :
       (SubmittedOnce(id) /\ termNotes[id] > 0)
          => ~Notified(id, {"processing", "queued"})]_vars

\* the queue holds an entry of id that is waiting, delayed or active
HasLiveEntry(id) ==
  \/ \E i \in 1..Len(waiting) : waiting[i].id = id
  \/ \E e \in delayed : e.id = id
  \/ \E w \in Workers : wentry[w].id = id

\* C35: a submission is atomic with respect to a failing enqueue: when
\* addJob rejects inside triggerIngestion, the failed call leaves no record
\* with status queued in the table, i.e. no queued record without a waiting,
\* delayed or active queue entry.
C35_EnqueueFailureAtomic ==
  [][\A id \in Ids :
       TriggerIngestionRejected(id)
          => ~(Known(id)' /\ Rec(id)'.status = "queued" /\ ~HasLiveEntry(id)')]_vars

\* C36: getHealthStatus and getQueueHealth never throw: a call in which a
\* queue read rejected returns status 'unhealthy' with the message of a
\* rejected read, and a call returns 'healthy' only when every queue read
\* it issued succeeded.
C36_HealthNeverThrows ==
  /\ hOutcome # "thrown"
  /\ (hPc = "idle" /\ hFailed # {}) =>
        /\ hOutcome = "returned"
        /\ hResult.status = "unhealthy"
        /\ \E r \in hFailed : hResult.error = ReadError(r)
  /\ hResult.status = "healthy" => hFailed = {}

\* getQueueHealth answers 'unhealthy' after its last read rejected
C36_Witness ==
  /\ hCall = "getQueueHealth"
  /\ hPc = "idle"
  /\ hFailed = {"getWaitingJobs"}
  /\ hResult = [status |-> "unhealthy", error |-> "getWaitingJobs"]

====
